---- MODULE Spec2Model ----
(***************************************************************************)
(* A model of the AL Drones flight-area analysis tool:                     *)
(*   - src/src/generate_safety_margins.py : the four safety-margin layers  *)
(*   - src/src/population_analysis.py     : population statistics per layer*)
(*   - src/app.py                         : the consumer of the statistics *)
(*                                                                         *)
(* Lengths are fixed-point numbers in millimetres (1 m = 1000), so that    *)
(* the constant 1.485 and the 0.01 m tolerances are integers.              *)
(***************************************************************************)
EXTENDS Integers, Sequences, FiniteSets, TLC

VARIABLES
    pc,            \* generate_safety_margins: "idle", "call" (arguments bound), "returned"
    call,          \* the arguments of the call, as passed by the caller
    has_polygon,   \* local has_polygon
    fg_size,       \* local fg_size at the end of the function
    cv_size,       \* local cv_size at the end of the function
    grb_size,      \* local grb_size at the end of the function
    join_style,    \* local join_style
    buffers,       \* local buffers: layer name -> buffer_size
    layers,        \* local layers: layer name -> geometry
    kml,           \* the features written to the output KML, in order
    printed,       \* the warnings printed, in order
    QUADRANT_INDEX,    \* global _QUADRANT_INDEX: None or the loaded index
    GRID_CACHE,        \* global _GRID_CACHE: shard id -> loaded grid
    disk,              \* dados_ibge/: the shapefiles present on disk
    ap_pc,             \* analyze_population: "idle", "fg", "grb", "aa", "done", "raised"
    kml_file,          \* the KML given to analyze_population: its features
    layers_poligonos,  \* local layers_poligonos
    results,           \* local results: layer name -> statistics
    retained,          \* dados_combinados of the call that gave results[name]
    downloads,         \* the shard downloads attempted in this run, in order
    ap_ret,            \* the value returned by analyze_population
    last_call,         \* the last direct call of a loader function and its outcome
    session_state,     \* st.session_state of the app: key -> value
    kml_input          \* the file held by the uploader widget (key 'kml_input')

gsm_vars == <<pc, call, has_polygon, fg_size, cv_size, grb_size, join_style,
              buffers, layers, kml, printed>>

pop_vars == <<QUADRANT_INDEX, GRID_CACHE, disk, ap_pc, kml_file, layers_poligonos,
              results, retained, downloads, ap_ret>>

loader_vars == <<last_call>>

app_vars == <<session_state, kml_input>>

vars == <<gsm_vars, pop_vars, loader_vars, app_vars>>

----------------------------------------------------------------------------
(* Fixed-point lengths *)

Metres(n) == n * 1000

\* Python's None for the optional grb_size: the empty option.
None == {}
Some(v) == {v}
Value(opt) == CHOOSE v \in opt : TRUE

----------------------------------------------------------------------------
(* Natural numbers beyond 32 bits, as little-endian sequences of limbs.    *)
(* Needed only to evaluate sqrt(2*height/9.81) at millimetre resolution.   *)

Base == 100 * 100

RECURSIVE Carry(_, _)
Carry(s, c) ==
    IF s = <<>>
    THEN IF c = 0 THEN <<>> ELSE <<c % Base>> \o Carry(<<>>, c \div Base)
    ELSE LET t == Head(s) + c
         IN  <<t % Base>> \o Carry(Tail(s), t \div Base)

BigOf(n) == Carry(<<n>>, 0)

Limb(a, i) == IF i \in 1..Len(a) THEN a[i] ELSE 0

RECURSIVE SumTo(_, _, _, _)
\* sum over i in 1..n of a[i] * b[k + 1 - i]
SumTo(a, b, k, n) ==
    IF n = 0 THEN 0 ELSE Limb(a, n) * Limb(b, k + 1 - n) + SumTo(a, b, k, n - 1)

BigMul(a, b) ==
    IF a = <<>> \/ b = <<>> THEN <<>>
    ELSE Carry([k \in 1..(Len(a) + Len(b) - 1) |-> SumTo(a, b, k, k)], 0)

RECURSIVE LeqFrom(_, _, _)
\* a <= b, comparing limbs i, i-1, ..., 1
LeqFrom(a, b, i) ==
    IF i = 0 THEN TRUE
    ELSE IF Limb(a, i) < Limb(b, i) THEN TRUE
    ELSE IF Limb(a, i) > Limb(b, i) THEN FALSE
    ELSE LeqFrom(a, b, i - 1)

BigLeq(a, b) == LeqFrom(a, b, IF Len(a) > Len(b) THEN Len(a) ELSE Len(b))

\* r <= 1000 * sqrt(625 * 2 * (h/1000) / 9.81), i.e. 981 r^2 <= 125000000 h
SqrtTermAtLeast(h, r) ==
    BigLeq(BigMul(BigOf(981), BigMul(BigOf(r), BigOf(r))),
           BigMul(BigOf(125000000), BigOf(h)))

RECURSIVE Bisect(_, _, _)
\* the largest r in lo..hi-1 with SqrtTermAtLeast(h, r); holds at lo, fails at hi
Bisect(h, lo, hi) ==
    IF hi - lo <= 1 THEN lo
    ELSE LET mid == (lo + hi) \div 2
         IN  IF SqrtTermAtLeast(h, mid) THEN Bisect(h, mid, hi) ELSE Bisect(h, lo, mid)

(* The argument values of generate_safety_margins that are explored *)

MaxSteps == 2

Ladder(step) == {k * step : k \in 0..MaxSteps}

Kinds == {"Point", "LineString", "Polygon"}

HeightValues ==
    {-Metres(10), 0, Metres(100), Metres(120), Metres(120) + 1, Metres(121), Metres(200)}
        \cup Ladder(Metres(150))

FgValues == {-Metres(10), 0, Metres(50)} \cup Ladder(Metres(600))

CvValues ==
    {-Metres(50), Metres(100), Metres(215) - 1, Metres(215), Metres(215) + 1}
        \cup Ladder(Metres(250))

GrbValues ==
    {None} \cup {Some(v) : v \in {-Metres(10), 0, Metres(100), Metres(120),
                                  161122, 161123} \cup Ladder(Metres(140))}

\* 25 * sqrt(2 * height / 9.81), in millimetres, rounded down, tabulated for
\* the heights explored (the root is searched below 2^20 mm)
SqrtTable == [h \in {x \in HeightValues : x > 0} |-> Bisect(h, 0, 1024 * 1024)]

SqrtTerm(h) == SqrtTable[h]

----------------------------------------------------------------------------
(* generate_safety_margins.py *)

\* calculate_grb_size without the constant 1.485 of line 36
calculate_grb_size_without_offset(h) ==
    IF h <= Metres(120) THEN h ELSE SqrtTerm(h)

calculate_grb_size_boundary_excluded(h) ==
    IF h < Metres(120) THEN h ELSE SqrtTerm(h) + 1485

calculate_grb_size(h) ==
    IF h <= Metres(120) THEN h ELSE SqrtTerm(h) + 1485

\* The geometry read from the input KML, reprojected to the metric CRS.
\* dist is the outward distance of a geometry's boundary from the input geometry;
\* cap_style and join_style are those of the buffer operation that made it (0: none).
InputGeometry(kind) ==
    [type |-> kind, dist |-> 0, cap_style |-> 0, join_style |-> 0]

\* shapely's geometry.buffer(distance, cap_style, join_style) for distance > 0
Buffer(geom, distance, cap, join) ==
    [type |-> "Polygon", dist |-> geom.dist + distance,
     cap_style |-> cap, join_style |-> join]

\* what the numbers passed as cap_style and join_style select in the buffer
\* operation of shapely (BufferCapStyle, BufferJoinStyle); 0: no buffer made
CapStyleName(n) ==
    IF n = 1 THEN "round"
    ELSE IF n = 2 THEN "flat"
    ELSE IF n = 3 THEN "square" ELSE "none"

JoinStyleName(n) ==
    IF n = 1 THEN "round"
    ELSE IF n = 2 THEN "mitre"
    ELSE IF n = 3 THEN "bevel" ELSE "none"

HasPolygon(kind) == kind \in {"Polygon", "MultiPolygon"}

FgSize_polygon_ignored(hp, fg) == fg

FgSize(hp, fg) == IF hp THEN 0 ELSE fg

JoinStyle(corner_style) == IF corner_style = "square" THEN 2 ELSE 1

WarnGrb == "Warning: GRB size is less than calculated minimum"
WarnCv  == "Warning: CV size is less than minimum (215m)"

GrbValidation_warn_only(grb, h) ==
    IF grb = None
    THEN [grb_size |-> calculate_grb_size(h), printed |-> <<>>]
    ELSE IF Value(grb) < calculate_grb_size(h)
         THEN [grb_size |-> Value(grb), printed |-> <<WarnGrb>>]
         ELSE [grb_size |-> Value(grb), printed |-> <<>>]

\* lines 79-88: the GRB size used, and what is printed
GrbValidation(grb, h) ==
    IF grb = None
    THEN [grb_size |-> calculate_grb_size(h), printed |-> <<>>]
    ELSE LET grb_minimum == calculate_grb_size(h)
         IN  IF Value(grb) < grb_minimum
             THEN [grb_size |-> grb_minimum, printed |-> <<WarnGrb>>]
             ELSE [grb_size |-> Value(grb), printed |-> <<>>]

CvValidation_floor_of_default(cv) ==
    IF cv < Metres(50)
    THEN [cv_size |-> Metres(50), printed |-> <<WarnCv>>]
    ELSE [cv_size |-> cv, printed |-> <<>>]

CvValidation_unclamped(cv) ==
    IF cv < Metres(215)
    THEN [cv_size |-> cv, printed |-> <<WarnCv>>]
    ELSE [cv_size |-> cv, printed |-> <<>>]

\* lines 90-94: the CV size used, and what is printed
CvValidation(cv) ==
    IF cv < Metres(215)
    THEN [cv_size |-> Metres(215), printed |-> <<WarnCv>>]
    ELSE [cv_size |-> cv, printed |-> <<>>]

BufferOrder == <<"Flight Geography", "Contingency Volume", "Ground Risk Buffer">>

Buffers_not_cumulative(fg, cv, grb) ==
    [n \in {BufferOrder[i] : i \in 1..3} |->
        IF n = "Flight Geography" THEN fg
        ELSE IF n = "Contingency Volume" THEN cv
        ELSE grb]

\* lines 97-101
Buffers(fg, cv, grb) ==
    [n \in {BufferOrder[i] : i \in 1..3} |->
        IF n = "Flight Geography" THEN fg
        ELSE IF n = "Contingency Volume" THEN cv + fg
        ELSE grb + cv + fg]

\* line 108
CapStyle(name, hp) == IF name = "Flight Geography" /\ ~hp THEN 3 ELSE 1

\* lines 104-114: one iteration of the loop over buffers
BufferedLayer(name, kind, buffer_size, hp, js) ==
    IF buffer_size > 0
    THEN Buffer(InputGeometry(kind), buffer_size, CapStyle(name, hp), js)
    ELSE InputGeometry(kind)

AdjacentBase_grb(lay) == lay["Ground Risk Buffer"]

\* line 117: the layer the Adjacent Area is buffered from
AdjacentBase(lay) == lay["Contingency Volume"]

\* lines 116-123
AdjacentLayer(lay, adj) == Buffer(AdjacentBase(lay), adj, 1, 1)

LayerOrder == BufferOrder \o <<"Adjacent Area">>

\* lines 131-135: the polygons of one row's geometry
Polygons(geom) == IF geom.type = "Polygon" THEN <<geom>> ELSE <<>>

RECURSIVE KmlFrom(_, _)
\* lines 129-144: one polygon feature per polygon, named after its layer
KmlFrom(lay, i) ==
    IF i > Len(LayerOrder) THEN <<>>
    ELSE [k \in 1..Len(Polygons(lay[LayerOrder[i]])) |->
             [name |-> LayerOrder[i], geometry |-> Polygons(lay[LayerOrder[i]])[k]]]
         \o KmlFrom(lay, i + 1)

\* lines 39-160
GenerateSafetyMargins ==
    /\ pc = "call"
    /\ LET hp  == HasPolygon(call.kind)
           fg  == FgSize(hp, call.fg_size)
           js  == JoinStyle(call.corner_style)
           g   == GrbValidation(call.grb_size, call.height)
           c   == CvValidation(call.cv_size)
           buf == Buffers(fg, c.cv_size, g.grb_size)
           lay3 == [n \in DOMAIN buf |-> BufferedLayer(n, call.kind, buf[n], hp, js)]
           lay == [n \in DOMAIN lay3 \cup {"Adjacent Area"} |->
                      IF n = "Adjacent Area"
                      THEN AdjacentLayer(lay3, call.adj_size)
                      ELSE lay3[n]]
       IN  /\ has_polygon' = hp
           /\ fg_size' = fg
           /\ join_style' = js
           /\ grb_size' = g.grb_size
           /\ cv_size' = c.cv_size
           /\ printed' = g.printed \o c.printed
           /\ buffers' = buf
           /\ layers' = lay
           /\ kml' = KmlFrom(lay, 1)
    /\ pc' = "returned"
    /\ UNCHANGED call
    /\ UNCHANGED <<pop_vars, loader_vars, app_vars>>

----------------------------------------------------------------------------
(* population_analysis.py: the reference data (IBGE grid) and geometry      *)
(*                                                                         *)
(* The ground is a strip of atoms, each a 200 m x 200 m square. A geometry *)
(* is the set of atoms it covers. Atom 0 and the last atom lie outside the *)
(* data domain of the grid.                                                *)

NumShards == 2
ShardWidth == 4

Atoms == 0 .. (NumShards * ShardWidth + 1)

\* grade_id of the s-th quadrant
GradeId(s) == 20 + s

ShardIds == {GradeId(s) : s \in 1..NumShards}

QuadrantGeom(s) == ((s - 1) * ShardWidth + 1) .. (s * ShardWidth)

\* BR500KM.shp: one row per quadrant, QUADRANTE = "ID_<n>"
BR500KM ==
    {[QUADRANTE |-> <<"ID_", GradeId(s)>>, geometry |-> QuadrantGeom(s)] :
        s \in 1..NumShards}

\* the population count of the cell that starts at atom a
Population(a) == (3 * a) % 5

\* grade_id<n>.shp: the cells of one quadrant; the first cell spans two
\* atoms, and the last atom of the quadrant is covered by no cell
GridFile(id) ==
    LET s == CHOOSE t \in 1..NumShards : GradeId(t) = id
        first == (s - 1) * ShardWidth + 1
    IN  {[geometry |-> {first, first + 1}, TOTAL |-> Population(first)]}
        \cup {[geometry |-> {a}, TOTAL |-> Population(a)] :
                 a \in (first + 2) .. (s * ShardWidth - 1)}

Intersects(g1, g2) == g1 \cap g2 # {}

Min(S) == CHOOSE x \in S : \A y \in S : x <= y
Max(S) == CHOOSE x \in S : \A y \in S : x >= y

\* geometry.bounds, as the interval it spans
Bounds(g) == IF g = {} THEN {} ELSE Min(g) .. Max(g)

\* geometry.area, in square metres
Area(g) == Cardinality(g) * 40000

RECURSIVE GCD(_, _)
GCD(a, b) == IF b = 0 THEN a ELSE GCD(b, a % b)

\* the real number n / d (d > 0), in lowest terms
Rat(n, d) == LET k == GCD(n, d) IN [num |-> n \div k, den |-> d \div k]

RatMul(x, y) == Rat(x.num * y.num, x.den * y.den)

RatLeq(x, y) == x.num * y.den <= y.num * x.den

RECURSIVE SumOver(_, _)
\* the sum of f[c] over the cells c of S
SumOver(S, f) ==
    IF S = {} THEN 0
    ELSE LET c == CHOOSE x \in S : TRUE IN f[c] + SumOver(S \ {c}, f)

RECURSIVE Sorted(_)
Sorted(S) == IF S = {} THEN <<>> ELSE <<Min(S)>> \o Sorted(S \ {Min(S)})

----------------------------------------------------------------------------
(* population_analysis.py: the functions *)

LayersKml == <<"Flight Geography", "Contingency Volume", "Ground Risk Buffer",
               "Adjacent Area">>

EmptyDict == [n \in {} |-> {}]

\* lines 35-54: name -> union of the polygons of the features with that name
extrair_layers_kml(features) ==
    LET polys(name) == {f \in features :
                           f.Name = name /\ f.type \in {"Polygon", "MultiPolygon"}}
        found == {LayersKml[i] : i \in {j \in 1..Len(LayersKml) : polys(LayersKml[j]) # {}}}
    IN  [name \in found |-> UNION {f.geometry : f \in polys(name)}]

\* lines 67-86: the download, if the file is absent, and the read
LoadIndexFile(index, dsk, env) ==
    IF ~dsk.index /\ ~env.index_download_ok
    THEN [ret |-> None, index |-> index, disk |-> dsk, raised |-> FALSE,
          io |-> {"download"}]
    ELSE LET dsk2 == [dsk EXCEPT !.index = TRUE]
             io == IF dsk.index THEN {"read"} ELSE {"download", "read"}
         IN  IF env.index_read_ok
             THEN [ret |-> Some(BR500KM), index |-> Some(BR500KM), disk |-> dsk2,
                   raised |-> FALSE, io |-> io]
             ELSE [ret |-> None, index |-> index, disk |-> dsk2, raised |-> TRUE,
                   io |-> io]

\* carregar_indice_quadrantes without the test of lines 64-65
carregar_indice_quadrantes_cache_ignored(index, dsk, env) ==
    LoadIndexFile(index, dsk, env)

\* lines 57-86. env: what the network and the storage do during the call;
\* io: the downloads and file reads the call makes
carregar_indice_quadrantes(index, dsk, env) ==
    IF index # None
    THEN [ret |-> index, index |-> index, disk |-> dsk, raised |-> FALSE, io |-> {}]
    ELSE LoadIndexFile(index, dsk, env)

\* line 110: int(g.replace("ID_", ""))
GradeNumber(quadrante) == quadrante[2]

\* lines 89-112, given the index returned by carregar_indice_quadrantes
identificar_grades_relevantes(area_geom, quadrant_index) ==
    IF quadrant_index = None THEN <<>>
    ELSE LET intersecting == {q \in Value(quadrant_index) :
                                 Intersects(q.geometry, area_geom)}
         IN  Sorted({GradeNumber(q.QUADRANTE) : q \in intersecting})

\* lines 128-149: the download, if the file is absent, and the read
LoadGridFile(grade_id, use_cache, cache, dsk, env) ==
    IF grade_id \notin dsk.grids /\ grade_id \notin env.grid_download_ok
    THEN [ret |-> None, cache |-> cache, disk |-> dsk, raised |-> FALSE,
          io |-> {"download"}]
    ELSE LET dsk2 == [dsk EXCEPT !.grids = @ \cup {grade_id}]
             io == IF grade_id \in dsk.grids THEN {"read"} ELSE {"download", "read"}
         IN  IF grade_id \in env.grid_read_ok
             THEN [ret |-> Some(GridFile(grade_id)),
                   cache |-> IF use_cache
                             THEN (grade_id :> GridFile(grade_id)) @@ cache
                             ELSE cache,
                   disk |-> dsk2, raised |-> FALSE, io |-> io]
             ELSE [ret |-> None, cache |-> cache, disk |-> dsk2, raised |-> TRUE,
                   io |-> io]

\* carregar_grid_ibge without the test of lines 125-126
carregar_grid_ibge_cache_ignored(grade_id, use_cache, cache, dsk, env) ==
    LoadGridFile(grade_id, use_cache, cache, dsk, env)

\* carregar_grid_ibge without the test of line 146: the data is stored
\* whatever use_cache is
carregar_grid_ibge_always_stores(grade_id, use_cache, cache, dsk, env) ==
    IF use_cache /\ grade_id \in DOMAIN cache
    THEN [ret |-> Some(cache[grade_id]), cache |-> cache, disk |-> dsk,
          raised |-> FALSE, io |-> {}]
    ELSE LoadGridFile(grade_id, TRUE, cache, dsk, env)

\* lines 115-149. io: the downloads and file reads the call makes
carregar_grid_ibge(grade_id, use_cache, cache, dsk, env) ==
    IF use_cache /\ grade_id \in DOMAIN cache
    THEN [ret |-> Some(cache[grade_id]), cache |-> cache, disk |-> dsk,
          raised |-> FALSE, io |-> {}]
    ELSE LoadGridFile(grade_id, use_cache, cache, dsk, env)

\* lines 229-231: the density of one cell, inhabitants per square kilometre
densidade_pop_km2(cell) == Rat(cell.TOTAL * 1000000, Area(cell.geometry))

\* lines 161-170
calcular_estatisticas(dados_intersec) ==
    IF dados_intersec = {}
    THEN [total_pessoas |-> 0, area_total_km2 |-> Rat(0, 1), densidade_media |-> Rat(0, 1)]
    ELSE LET total_pessoas == SumOver(dados_intersec, [c \in dados_intersec |-> c.TOTAL])
             area == SumOver(dados_intersec, [c \in dados_intersec |-> Area(c.geometry)])
         IN  [total_pessoas |-> total_pessoas,
              area_total_km2 |-> Rat(area, 1000000),
              densidade_media |-> IF area > 0 THEN Rat(total_pessoas * 1000000, area)
                                  ELSE Rat(0, 1)]

\* lines 206-210 alone: the cells whose bounding box meets that of the area
FilterCells_bounding_box_only(grid, area_geom) ==
    {c \in grid : Intersects(Bounds(c.geometry), Bounds(area_geom))}

\* lines 204-215: the cells of one grid that intersect the area
FilterCells(grid, area_geom) ==
    LET possible_matches == {c \in grid :
                                Intersects(Bounds(c.geometry), Bounds(area_geom))}
    IN  {c \in possible_matches : Intersects(c.geometry, area_geom)}

\* lines 131-142: the download that a call of carregar_grid_ibge attempted, if
\* any, and whether it succeeded (the file is read only after it did)
DownloadOf(grade_id, r) ==
    IF "download" \in r.io
    THEN <<[grade_id |-> grade_id, ok |-> "read" \in r.io]>>
    ELSE <<>>

RECURSIVE LoadGrids(_, _, _, _, _)
\* lines 196-218: the loop over grades_relevantes
LoadGrids(grades, area_geom, cache, dsk, env) ==
    IF grades = <<>>
    THEN [cache |-> cache, disk |-> dsk, todos_dados |-> <<>>, raised |-> FALSE,
          downloads |-> <<>>]
    ELSE LET r == carregar_grid_ibge(Head(grades), TRUE, cache, dsk, env)
         IN  IF r.raised
             THEN [cache |-> r.cache, disk |-> r.disk, todos_dados |-> <<>>,
                   raised |-> TRUE, downloads |-> DownloadOf(Head(grades), r)]
             ELSE LET rest == LoadGrids(Tail(grades), area_geom, r.cache, r.disk, env)
                      dados_filtrados ==
                          IF r.ret = None THEN {}
                          ELSE FilterCells(Value(r.ret), area_geom)
                  IN  [rest EXCEPT !.todos_dados =
                                      IF dados_filtrados = {} THEN @
                                      ELSE <<dados_filtrados>> \o @,
                                   !.downloads = DownloadOf(Head(grades), r) \o @]

\* lines 320-361: the statistics returned for the combined cells
Statistics(dados_combinados, area_geom, use_polygon_area) ==
    LET st == calcular_estatisticas(dados_combinados)
        area_real == Area(area_geom)
    IN  [total_pessoas |-> st.total_pessoas,
         area_total_km2 |-> st.area_total_km2,
         densidade_media |->
             IF use_polygon_area
             THEN IF area_real > 0 THEN Rat(st.total_pessoas * 1000000, area_real)
                  ELSE Rat(0, 1)
             ELSE st.densidade_media]

\* lines 173-361 (the rendering of the map left out)
processar_todas_grades(area_geom, use_polygon_area, index, cache, dsk, env) ==
    LET qi == carregar_indice_quadrantes(index, dsk, env)
        grades_relevantes == identificar_grades_relevantes(area_geom, qi.ret)
        l == LoadGrids(grades_relevantes, area_geom, cache, qi.disk, env)
        dados_combinados == UNION {l.todos_dados[i] : i \in 1..Len(l.todos_dados)}
    IN  IF qi.raised
        THEN [ret |-> None, index |-> qi.index, cache |-> cache, disk |-> qi.disk,
              raised |-> TRUE, dados |-> {}, downloads |-> <<>>]
        ELSE IF grades_relevantes = <<>>
        THEN [ret |-> None, index |-> qi.index, cache |-> cache, disk |-> qi.disk,
              raised |-> FALSE, dados |-> {}, downloads |-> <<>>]
        ELSE IF l.raised
        THEN [ret |-> None, index |-> qi.index, cache |-> l.cache, disk |-> l.disk,
              raised |-> TRUE, dados |-> {}, downloads |-> l.downloads]
        ELSE IF l.todos_dados = <<>>
        THEN [ret |-> None, index |-> qi.index, cache |-> l.cache, disk |-> l.disk,
              raised |-> FALSE, dados |-> {}, downloads |-> l.downloads]
        ELSE [ret |-> Some(Statistics(dados_combinados, area_geom, use_polygon_area)),
              index |-> qi.index, cache |-> l.cache, disk |-> l.disk,
              raised |-> FALSE, dados |-> dados_combinados,
              downloads |-> l.downloads]

\* what the network and the storage may do during one call for area_geom:
\* whether the index downloads and reads, and which of the shards that the
\* area can need download and read
Envs(area_geom) ==
    LET needed == {GradeId(s) : s \in {t \in 1..NumShards :
                                          Intersects(QuadrantGeom(t), area_geom)}}
    IN  [index_download_ok : BOOLEAN, index_read_ok : BOOLEAN,
         grid_download_ok : SUBSET needed, grid_read_ok : SUBSET needed]

\* one stage of analyze_population: a call of processar_todas_grades and the
\* `if stats:` that follows it
Stage(name, area_geom, use_polygon_area, next_pc, env) ==
    LET r == processar_todas_grades(area_geom, use_polygon_area, QUADRANT_INDEX,
                                    GRID_CACHE, disk, env)
    IN  /\ QUADRANT_INDEX' = r.index
        /\ GRID_CACHE' = r.cache
        /\ disk' = r.disk
        /\ downloads' = downloads \o r.downloads
        /\ IF r.raised
           THEN ap_pc' = "raised" /\ UNCHANGED <<results, retained>>
           ELSE /\ ap_pc' = next_pc
                /\ results' = IF r.ret # None
                              THEN (name :> Value(r.ret)) @@ results
                              ELSE results
                /\ retained' = IF r.ret # None
                               THEN (name :> r.dados) @@ retained
                               ELSE retained

\* lines 364-390: the call, up to the first stage
AnalyzeStart(features) ==
    /\ ap_pc \in {"idle", "done", "raised"}
    /\ kml_file' = features
    /\ layers_poligonos' = extrair_layers_kml(features)
    /\ results' = EmptyDict
    /\ retained' = EmptyDict
    /\ downloads' = <<>>
    /\ ap_ret' = None
    /\ ap_pc' = IF DOMAIN extrair_layers_kml(features) = {} THEN "done" ELSE "fg"
    /\ UNCHANGED <<QUADRANT_INDEX, GRID_CACHE, disk>>
    /\ UNCHANGED <<gsm_vars, loader_vars, app_vars>>

\* the Flight Geography stage followed at once by the ring stage
AnalyzeFlightGeography_then_ring ==
    /\ ap_pc = "fg"
    /\ IF "Flight Geography" \in DOMAIN layers_poligonos
       THEN \E env \in Envs(layers_poligonos["Flight Geography"]) :
               Stage("Flight Geography", layers_poligonos["Flight Geography"],
                     FALSE, "aa", env)
       ELSE /\ ap_pc' = "raised"
            /\ UNCHANGED <<QUADRANT_INDEX, GRID_CACHE, disk, results, retained,
                           downloads>>
    /\ UNCHANGED <<kml_file, layers_poligonos, ap_ret>>
    /\ UNCHANGED <<gsm_vars, loader_vars, app_vars>>

\* lines 392-402
AnalyzeFlightGeography ==
    /\ ap_pc = "fg"
    /\ IF "Flight Geography" \in DOMAIN layers_poligonos
       THEN \E env \in Envs(layers_poligonos["Flight Geography"]) :
               Stage("Flight Geography", layers_poligonos["Flight Geography"],
                     FALSE, "grb", env)
       ELSE /\ ap_pc' = "raised"
            /\ UNCHANGED <<QUADRANT_INDEX, GRID_CACHE, disk, results, retained,
                           downloads>>
    /\ UNCHANGED <<kml_file, layers_poligonos, ap_ret>>
    /\ UNCHANGED <<gsm_vars, loader_vars, app_vars>>

\* lines 404-414
AnalyzeGroundRiskBuffer ==
    /\ ap_pc = "grb"
    /\ IF "Ground Risk Buffer" \in DOMAIN layers_poligonos
       THEN \E env \in Envs(layers_poligonos["Ground Risk Buffer"]) :
               Stage("Ground Risk Buffer", layers_poligonos["Ground Risk Buffer"],
                     FALSE, "aa", env)
       ELSE /\ ap_pc' = "raised"
            /\ UNCHANGED <<QUADRANT_INDEX, GRID_CACHE, disk, results, retained,
                           downloads>>
    /\ UNCHANGED <<kml_file, layers_poligonos, ap_ret>>
    /\ UNCHANGED <<gsm_vars, loader_vars, app_vars>>

\* the ring taken as the whole Adjacent Area polygon
area_anel_raw == layers_poligonos["Adjacent Area"]

\* line 419
area_anel == layers_poligonos["Adjacent Area"] \ layers_poligonos["Ground Risk Buffer"]

\* lines 416-438: the ring stage and the return
AnalyzeAdjacentArea ==
    /\ ap_pc = "aa"
    /\ IF /\ "Adjacent Area" \in DOMAIN layers_poligonos
          /\ "Ground Risk Buffer" \in DOMAIN layers_poligonos
       THEN \E env \in Envs(area_anel) :
               Stage("Adjacent Area", area_anel, TRUE, "done", env)
       ELSE /\ ap_pc' = "done"
            /\ UNCHANGED <<QUADRANT_INDEX, GRID_CACHE, disk, results, retained,
                           downloads>>
    /\ ap_ret' = IF ap_pc' = "done" THEN Some(results') ELSE None
    /\ UNCHANGED <<kml_file, layers_poligonos>>
    /\ UNCHANGED <<gsm_vars, loader_vars, app_vars>>

\* app.py lines 585-649: the keys the app reads from each layer's statistics
AppStatKeys == {"total_pessoas", "area_km2", "densidade_media", "densidade_maxima"}

----------------------------------------------------------------------------
(* The KML files given to analyze_population that are explored *)

\* the width of GRB and of the Adjacent Area around CV, in atoms
GrbWidths == {0, 1}
AdjWidths == {1, 2}

AllLayers == {LayersKml[i] : i \in 1..Len(LayersKml)}

\* the layers a KML holds: all four, all but one, Flight Geography alone, none
PresentSets ==
    {AllLayers, {"Flight Geography"}, {}} \cup {AllLayers \ {n} : n \in AllLayers}

Clip(lo, hi) == {a \in Atoms : lo <= a /\ a <= hi}

\* the four layers around the atom c: CV one atom around FG, GRB g atoms and
\* the Adjacent Area a atoms around CV
SceneGeometry(c, g, a) ==
    [n \in {LayersKml[i] : i \in 1..Len(LayersKml)} |->
        IF n = "Flight Geography" THEN Clip(c, c)
        ELSE IF n = "Contingency Volume" THEN Clip(c - 1, c + 1)
        ELSE IF n = "Ground Risk Buffer" THEN Clip(c - 1 - g, c + 1 + g)
        ELSE Clip(c - 1 - a, c + 1 + a)]

SceneKml(c, g, a, present) ==
    {[Name |-> n, type |-> "Polygon", geometry |-> SceneGeometry(c, g, a)[n]] :
        n \in present}

\* every scene with all four layers, and the narrowest scene around each atom
\* with each set of layers
KmlFiles ==
    {SceneKml(c, g, a, AllLayers) : c \in Atoms, g \in GrbWidths, a \in AdjWidths}
        \cup {SceneKml(c, Min(GrbWidths), Min(AdjWidths), present) :
                 c \in Atoms, present \in PresentSets}

\* no loader function has been called directly
NoCall == [fn |-> "none"]

\* the session of the app after its first script run, nothing uploaded
AppIdle ==
    /\ session_state = [current_step |-> 1, kml_uploaded |-> FALSE,
                        parameters_set |-> FALSE]
    /\ kml_input = None

PopIdle ==
    /\ QUADRANT_INDEX = None
    /\ GRID_CACHE = EmptyDict
    /\ disk = [index |-> FALSE, grids |-> {}]
    /\ ap_pc = "idle"
    /\ kml_file = {}
    /\ layers_poligonos = EmptyDict
    /\ results = EmptyDict
    /\ retained = EmptyDict
    /\ downloads = <<>>
    /\ ap_ret = None
    /\ last_call = NoCall
    /\ AppIdle

\* generate_safety_margins is not being called; call holds its defaults
MarginsIdle ==
    /\ pc = "idle"
    /\ call = [kind |-> "Polygon", fg_size |-> 0, height |-> Metres(100),
               cv_size |-> Metres(50), grb_size |-> None,
               adj_size |-> Metres(5000), corner_style |-> "square"]
    /\ has_polygon = FALSE
    /\ fg_size = 0
    /\ cv_size = 0
    /\ grb_size = 0
    /\ join_style = 0
    /\ buffers = <<>>
    /\ layers = <<>>
    /\ kml = <<>>
    /\ printed = <<>>

InitPop == MarginsIdle /\ PopIdle

NextPop ==
    \/ \E features \in KmlFiles : AnalyzeStart(features)
    \/ AnalyzeFlightGeography
    \/ AnalyzeGroundRiskBuffer
    \/ AnalyzeAdjacentArea

SpecPop == InitPop /\ [][NextPop]_vars

----------------------------------------------------------------------------
(* The loader functions called directly, in any order, within one process *)

\* what the network and the storage may do during one call
CallEnvs ==
    [index_download_ok : BOOLEAN, index_read_ok : BOOLEAN,
     grid_download_ok : SUBSET ShardIds, grid_read_ok : SUBSET ShardIds]

\* a call carregar_grid_ibge(grade_id, use_cache)
CallCarregarGridIbge(grade_id, use_cache) ==
    /\ \E env \in CallEnvs :
          LET r == carregar_grid_ibge(grade_id, use_cache, GRID_CACHE, disk, env)
          IN  /\ GRID_CACHE' = r.cache
              /\ disk' = r.disk
              /\ last_call' = [fn |-> "carregar_grid_ibge", grade_id |-> grade_id,
                               use_cache |-> use_cache, ret |-> r.ret,
                               raised |-> r.raised, io |-> r.io]
    /\ UNCHANGED <<QUADRANT_INDEX, ap_pc, kml_file, layers_poligonos, results,
                   retained, downloads, ap_ret>>
    /\ UNCHANGED <<gsm_vars, app_vars>>

\* a call carregar_indice_quadrantes()
CallCarregarIndiceQuadrantes ==
    /\ \E env \in CallEnvs :
          LET r == carregar_indice_quadrantes(QUADRANT_INDEX, disk, env)
          IN  /\ QUADRANT_INDEX' = r.index
              /\ disk' = r.disk
              /\ last_call' = [fn |-> "carregar_indice_quadrantes", ret |-> r.ret,
                               raised |-> r.raised, io |-> r.io]
    /\ UNCHANGED <<GRID_CACHE, ap_pc, kml_file, layers_poligonos, results,
                   retained, downloads, ap_ret>>
    /\ UNCHANGED <<gsm_vars, app_vars>>

NextLoader ==
    \/ \E grade_id \in ShardIds, use_cache \in BOOLEAN :
          CallCarregarGridIbge(grade_id, use_cache)
    \/ CallCarregarIndiceQuadrantes

SpecLoader == InitPop /\ [][NextLoader]_vars

----------------------------------------------------------------------------
(* The calls of generate_safety_margins that are explored *)

AdjValues == {Metres(5000), Metres(1000)}

CornerStyles == {"square", "rounded"}

Calls ==
    [kind : Kinds, fg_size : FgValues, height : HeightValues, cv_size : CvValues,
     grb_size : GrbValues, adj_size : AdjValues, corner_style : CornerStyles]

InitMargins ==
    /\ pc = "call"
    /\ call \in Calls
    /\ has_polygon = FALSE
    /\ fg_size = 0
    /\ cv_size = 0
    /\ grb_size = 0
    /\ join_style = 0
    /\ buffers = <<>>
    /\ layers = <<>>
    /\ kml = <<>>
    /\ printed = <<>>
    /\ PopIdle

Init == InitMargins

Next == GenerateSafetyMargins

Spec == Init /\ [][Next]_vars

----------------------------------------------------------------------------
(* The app wizard: one browser session, one action per user interaction *)

\* the files a user may upload
UploadedFiles == {"a.kml", "b.kml", "c.kml"}

\* the parameter sets a user may enter in step 2
ParameterSets ==
    {[fg_size |-> Metres(50), height |-> h, cv_size |-> Metres(215),
      grb_size |-> calculate_grb_size(h), corner_style |-> c] :
        h \in {Metres(100), Metres(200)}, c \in CornerStyles}

\* st.session_state[key] = value
Store(state, key, value) == (key :> value) @@ state

\* st.session_state.pop(key, None), del st.session_state[key] of a present key
Pop(state, key) == [k \in DOMAIN state \ {key} |-> state[k]]

\* the stored parameters, as step 3 reads them
StoredParameters(state) ==
    [fg_size |-> state.fg_size, height |-> state.height, cv_size |-> state.cv_size,
     grb_size |-> state.grb_size, corner_style |-> state.corner_style]

\* the safety-margin KML generated from an uploaded file with the parameters
SafetyMarginsKml(file, params) == [input |-> file, margins |-> params]

\* the uploader of step 1 is rendered
UploaderShown ==
    session_state.current_step >= 1 /\ ~session_state.kml_uploaded

\* the results section is rendered
ResultsDisplayed ==
    /\ session_state.current_step >= 3
    /\ session_state.parameters_set
    /\ "analysis_results" \in DOMAIN session_state

\* the user puts a file into the uploader, or replaces the one it holds
UploadFile(file) ==
    /\ UploaderShown
    /\ kml_input # Some(file)
    /\ kml_input' = Some(file)
    /\ session_state' = Store(Store(Pop(session_state, "analysis_results"),
                                    "uploaded_file", file),
                              "kml_filename", file)
    /\ UNCHANGED <<gsm_vars, pop_vars, loader_vars>>

\* the user removes the file from the uploader
RemoveFile ==
    /\ UploaderShown
    /\ kml_input # None
    /\ kml_input' = None
    /\ session_state' = Pop(session_state, "analysis_results")
    /\ UNCHANGED <<gsm_vars, pop_vars, loader_vars>>

\* the button "Proximo" of step 1
NextStep ==
    /\ UploaderShown
    /\ kml_input # None
    /\ session_state' = Store(Store(session_state, "kml_uploaded", TRUE),
                              "current_step", 2)
    /\ UNCHANGED <<kml_input, gsm_vars, pop_vars, loader_vars>>

\* the button edit_step1; the uploader is rendered again, holding its file or
\* empty, and a file it holds is stored again
EditStep1 ==
    /\ session_state.current_step >= 1
    /\ session_state.kml_uploaded
    /\ kml_input' \in {None, kml_input}
    /\ session_state' = Store(Store(session_state, "kml_uploaded", FALSE),
                              "current_step", 1)
    /\ UNCHANGED <<gsm_vars, pop_vars, loader_vars>>

\* the button edit_step2 without the deletion of the stored results
EditStep2_keeps_results ==
    /\ session_state.current_step >= 2
    /\ session_state.kml_uploaded
    /\ session_state.parameters_set
    /\ session_state' = Store(Store(session_state, "parameters_set", FALSE),
                              "current_step", 2)
    /\ UNCHANGED <<kml_input, gsm_vars, pop_vars, loader_vars>>

\* the button edit_step2
EditStep2 ==
    /\ session_state.current_step >= 2
    /\ session_state.kml_uploaded
    /\ session_state.parameters_set
    /\ session_state' = Pop(Store(Store(session_state, "parameters_set", FALSE),
                                  "current_step", 2),
                            "analysis_results")
    /\ UNCHANGED <<kml_input, gsm_vars, pop_vars, loader_vars>>

\* the button "Iniciar Analise" of step 2
StartAnalysis(params) ==
    /\ session_state.current_step >= 2
    /\ session_state.kml_uploaded
    /\ ~session_state.parameters_set
    /\ session_state' =
          [k \in {"fg_size", "height", "cv_size", "grb_size", "corner_style"}
              |-> params[k]]
          @@ Store(Store(session_state, "parameters_set", TRUE), "current_step", 3)
    /\ UNCHANGED <<kml_input, gsm_vars, pop_vars, loader_vars>>

\* a script run that reaches step 3 with no stored results: the analysis gives
\* results, gives none, or raises
RunAnalysis ==
    /\ session_state.current_step >= 3
    /\ session_state.parameters_set
    /\ "analysis_results" \notin DOMAIN session_state
    /\ \E outcome \in {"results", "none", "raised"} :
          session_state' =
              IF outcome = "results"
              THEN LET kml_data == SafetyMarginsKml(session_state.uploaded_file,
                                                    StoredParameters(session_state))
                   IN  Store(session_state, "analysis_results",
                             [stats |-> [analysed |-> kml_data],
                              output_dir |-> "analysis_results",
                              kml_data |-> kml_data])
              ELSE session_state
    /\ UNCHANGED <<kml_input, gsm_vars, pop_vars, loader_vars>>

InitApp == MarginsIdle /\ PopIdle

NextApp ==
    \/ \E file \in UploadedFiles : UploadFile(file)
    \/ RemoveFile
    \/ NextStep
    \/ EditStep1
    \/ EditStep2
    \/ \E params \in ParameterSets : StartAnalysis(params)
    \/ RunAnalysis

SpecApp == InitApp /\ [][NextApp]_vars

----------------------------------------------------------------------------
(* Claims about generate_safety_margins *)

Returned == pc = "returned"

\* the valid parameter sets: height >= 0 and fg_size >= 0
ValidCall == call.height >= 0 /\ call.fg_size >= 0

Dist(name) == layers[name].dist

HasWarning(w) == \E i \in 1..Len(printed) : printed[i] = w

C2_CvFloor ==
    /\ pc = "call" => ENABLED GenerateSafetyMargins
    /\ Returned =>
        /\ call.cv_size < Metres(215) => cv_size = Metres(215) /\ HasWarning(WarnCv)
        /\ call.cv_size >= Metres(215) => cv_size = call.cv_size /\ ~HasWarning(WarnCv)
        /\ cv_size >= Metres(215)

C2_Witness ==
    /\ Returned
    /\ call.cv_size = Metres(100)
    /\ cv_size = Metres(215)
    /\ HasWarning(WarnCv)
    /\ Len(kml) > 0

\* C3: an explicit grb_size below calculate_grb_size(height) is raised to
\* exactly that minimum with a warning and no error; one at or above it is
\* used unchanged; the effective GRB size is always >= the minimum.
C3_GrbFloor ==
    /\ pc = "call" => ENABLED GenerateSafetyMargins
    /\ Returned =>
        /\ grb_size >= calculate_grb_size(call.height)
        /\ call.grb_size # None =>
            /\ Value(call.grb_size) < calculate_grb_size(call.height) =>
                   grb_size = calculate_grb_size(call.height) /\ HasWarning(WarnGrb)
            /\ Value(call.grb_size) >= calculate_grb_size(call.height) =>
                   grb_size = Value(call.grb_size) /\ ~HasWarning(WarnGrb)

C3_Witness ==
    /\ Returned
    /\ call.height = Metres(200)
    /\ call.grb_size = Some(Metres(100))
    /\ grb_size = 161122
    /\ HasWarning(WarnGrb)
    /\ Len(kml) > 0

\* r is 25*sqrt(2*h/9.81) in millimetres, rounded down:
\* 981 r^2 <= 125000000 h < 981 (r+1)^2
IsSqrtTerm(h, r) ==
    /\ r >= 0
    /\ SqrtTermAtLeast(h, r)
    /\ ~SqrtTermAtLeast(h, r + 1)

\* C4: without a grb_size, the GRB size used is height for every height <= 120 m
\* (120 included) and 25*sqrt(2*height/9.81) + 1.485 for every height > 120 m.
C4_GrbFromHeight ==
    (Returned /\ call.grb_size = None) =>
        /\ ~HasWarning(WarnGrb)
        /\ call.height <= Metres(120) => grb_size = call.height
        /\ call.height > Metres(120) => IsSqrtTerm(call.height, grb_size - 1485)

C4_Witness ==
    /\ Returned
    /\ call.grb_size = None
    /\ call.height = Metres(120) + 1
    /\ grb_size = 123655 + 1485

\* C5: for a polygon input fg_size is forced to 0 whatever was supplied: the
\* Flight Geography is the unbuffered input, the CV distance is the effective
\* cv_size and the GRB distance the effective grb_size + cv_size.
C5_PolygonForcesFgZero ==
    (Returned /\ call.kind = "Polygon") =>
        /\ fg_size = 0
        /\ layers["Flight Geography"] = InputGeometry("Polygon")
        /\ Dist("Contingency Volume") = cv_size
        /\ call.height >= 0 => Dist("Ground Risk Buffer") = grb_size + cv_size

C5_Witness ==
    /\ Returned
    /\ call.kind = "Polygon"
    /\ call.fg_size = Metres(50)
    /\ fg_size = 0
    /\ Dist("Contingency Volume") = Metres(215)

\* C6: for point/line input the buffers are cumulative from the input:
\* FG at fg_size, CV at cv_size + fg_size, GRB at grb_size + cv_size + fg_size
\* (effective sizes).
C6_CumulativeBuffers ==
    (Returned /\ ValidCall /\ call.kind \in {"Point", "LineString"}) =>
        /\ fg_size = call.fg_size
        /\ Dist("Flight Geography") = fg_size
        /\ Dist("Contingency Volume") = cv_size + fg_size
        /\ Dist("Ground Risk Buffer") = grb_size + cv_size + fg_size

C6_Witness ==
    /\ Returned
    /\ call.kind = "Point"
    /\ call.fg_size = Metres(50)
    /\ call.height = Metres(100)
    /\ call.cv_size = Metres(215)
    /\ call.grb_size = None
    /\ call.corner_style = "square"
    /\ Dist("Flight Geography") = Metres(50)
    /\ Dist("Contingency Volume") = Metres(265)
    /\ Dist("Ground Risk Buffer") = Metres(365)

\* C7: the Adjacent Area is the Contingency Volume buffered by adj_size, not a
\* buffer of GRB: its distance from the input is cv_size + fg_size + adj_size
\* (effective sizes), a function of kind, fg_size, cv_size and adj_size only.
C7_AdjacentFromCv ==
    Returned =>
        /\ Dist("Adjacent Area") = cv_size + fg_size + call.adj_size
        /\ Dist("Adjacent Area") = Dist("Contingency Volume") + call.adj_size
        /\ Dist("Adjacent Area") =
              (IF call.cv_size < Metres(215) THEN Metres(215) ELSE call.cv_size)
              + (IF call.kind = "Polygon" THEN 0 ELSE call.fg_size)
              + call.adj_size

C7_Witness ==
    /\ Returned /\ ValidCall
    /\ call.adj_size = Metres(5000)
    /\ grb_size > 0
    /\ Dist("Adjacent Area") = Metres(5265)
    /\ Dist("Adjacent Area") # Dist("Ground Risk Buffer") + call.adj_size

HasFeature(name) == \E i \in 1..Len(kml) : kml[i].name = name

\* C8: for every supported input geometry (point, line or polygon) and every
\* valid parameter set (fg_size = 0 included), the KML written holds polygon
\* features for all four layers, each named with its layer name.
C8_AllFourLayersInKml ==
    (Returned /\ ValidCall) =>
        \A i \in 1..Len(LayerOrder) : HasFeature(LayerOrder[i])

\* v is a length in millimetres rounded down: the length itself lies in
\* [v, v + 1). Whether it can lie, and whether it must lie, within tol of
\* target.
CanBeWithin(v, target, tol) == target - tol < v + 1 /\ v <= target + tol

IsWithin(v, target, tol) == target - tol <= v /\ v + 1 <= target + tol

\* C17: calculate_grb_size(100) equals 100, and calculate_grb_size(200) lies
\* within 0.01 of 161.14; the same for the GRB size the function gives to a
\* call with these heights and no grb_size.
C17_GrbSizeAt100And200 ==
    /\ calculate_grb_size(Metres(100)) = Metres(100)
    /\ CanBeWithin(calculate_grb_size(Metres(200)), 161140, 10)
    /\ (Returned /\ call.grb_size = None) =>
          /\ call.height = Metres(100) => grb_size = Metres(100)
          /\ call.height = Metres(200) => CanBeWithin(grb_size, 161140, 10)

\* C17, amended: calculate_grb_size(100) equals 100, and
\* calculate_grb_size(200) lies within 0.01 of 161.12; the same for the GRB
\* size the function gives to a call with these heights and no grb_size.
C17_GrbSizeAt200Is161_12 ==
    /\ calculate_grb_size(Metres(100)) = Metres(100)
    /\ IsWithin(calculate_grb_size(Metres(200)), 161120, 10)
    /\ (Returned /\ call.grb_size = None) =>
          /\ call.height = Metres(100) => grb_size = Metres(100)
          /\ call.height = Metres(200) => IsWithin(grb_size, 161120, 10)

C17_Witness ==
    /\ Returned
    /\ call.grb_size = None
    /\ call.height = Metres(200)
    /\ grb_size = calculate_grb_size(Metres(200))
    /\ grb_size = 161122
    /\ calculate_grb_size(Metres(100)) = Metres(100)

\* the layers that a buffer operation made
Buffered == {n \in DOMAIN layers : layers[n].cap_style # 0}

\* C23: corner_style selects the join style of every buffer operation that
\* is applied (FG, CV, GRB and AA): 'square' gives sharp (mitred) joins on
\* all of them and 'rounded' gives round joins on all of them.
C23_CornerStyleOnEveryBuffer ==
    (Returned /\ ValidCall) =>
        \A n \in Buffered :
            /\ call.corner_style = "square"
                   => JoinStyleName(layers[n].join_style) = "mitre"
            /\ call.corner_style = "rounded"
                   => JoinStyleName(layers[n].join_style) = "round"

\* C24: the Flight Geography buffer around a point/line (non-polygon) input
\* is made with the flat cap style, and every other buffer (CV, GRB, AA, and
\* any buffer for polygon input) with the round cap style.
C24_FlatCapOnFlightGeography ==
    (Returned /\ ValidCall) =>
        \A n \in Buffered :
            CapStyleName(layers[n].cap_style) =
                IF n = "Flight Geography" /\ call.kind \in {"Point", "LineString"}
                THEN "flat" ELSE "round"

----------------------------------------------------------------------------
(* Claims about the statistics of population_analysis *)

\* the largest per-cell density among the cells S
MaxDensity(S) ==
    CHOOSE d \in {densidade_pop_km2(c) : c \in S} :
        \A c \in S : RatLeq(densidade_pop_km2(c), d)

\* C9: every per-layer statistics record returned (and read by the app)
\* carries total population, area_km2, mean density and max density, the max
\* density being the largest per-cell density among the retained cells.
C9_StatsCarryMaxDensity ==
    \A n \in DOMAIN results :
        /\ AppStatKeys \subseteq DOMAIN results[n]
        /\ results[n].densidade_maxima = MaxDensity(retained[n])

\* the area a statistics record carries, under either of its names
ReturnedArea(st) ==
    IF "area_km2" \in DOMAIN st THEN st.area_km2 ELSE st.area_total_km2

\* C10: for every statistics record returned, with use_polygon_area False or
\* True, mean density times the returned area equals the total population.
C10_MeanTimesAreaIsTotal ==
    \A n \in DOMAIN results :
        RatMul(results[n].densidade_media, ReturnedArea(results[n]))
            = Rat(results[n].total_pessoas, 1)

----------------------------------------------------------------------------
(* Claims about the stages of analyze_population *)

\* C11: the Adjacent Area statistics are computed over the ring AA minus GRB,
\* never over the raw AA polygon: the ring shares no area with GRB, no cell
\* wholly inside GRB is among the cells the Adjacent Area totals are made of,
\* and every such cell reaches into the ring.
C11_RingExcludesGrb ==
    "Adjacent Area" \in DOMAIN results =>
        LET grb == layers_poligonos["Ground Risk Buffer"]
            ring == layers_poligonos["Adjacent Area"] \ grb
            cells == retained["Adjacent Area"]
        IN  /\ area_anel \cap grb = {}
            /\ \A c \in cells :
                   /\ ~(c.geometry \subseteq grb)
                   /\ Intersects(c.geometry, ring)
            /\ results["Adjacent Area"].total_pessoas
                   = SumOver(cells, [c \in cells |-> c.TOTAL])

\* the ring stage returned statistics while a populated cell wholly inside
\* GRB was counted for the Ground Risk Buffer
C11_Witness ==
    /\ ap_pc = "done"
    /\ "Adjacent Area" \in DOMAIN results
    /\ "Ground Risk Buffer" \in DOMAIN results
    /\ results["Adjacent Area"].total_pessoas > 0
    /\ \E c \in retained["Ground Risk Buffer"] :
           /\ c.geometry \subseteq layers_poligonos["Ground Risk Buffer"]
           /\ c.geometry \subseteq layers_poligonos["Adjacent Area"]
           /\ c.TOTAL > 0
           /\ c \notin retained["Adjacent Area"]

\* the stages of analyze_population, the position each starts from and the
\* position that follows it
StageNames == {"Flight Geography", "Ground Risk Buffer", "Adjacent Area"}

StagePc(name) ==
    IF name = "Flight Geography" THEN "fg"
    ELSE IF name = "Ground Risk Buffer" THEN "grb" ELSE "aa"

AfterStage(name) ==
    IF name = "Flight Geography" THEN "grb"
    ELSE IF name = "Ground Risk Buffer" THEN "aa" ELSE "done"

\* the polygon a stage queries
QueryPolygon(name) ==
    IF name = "Adjacent Area"
    THEN layers_poligonos["Adjacent Area"] \ layers_poligonos["Ground Risk Buffer"]
    ELSE layers_poligonos[name]

\* the layers a stage needs
Needs(name) ==
    IF name = "Adjacent Area" THEN {"Adjacent Area", "Ground Risk Buffer"} ELSE {name}

\* this step is the stage `name` calling processar_todas_grades
Queries(name) ==
    /\ ap_pc = StagePc(name)
    /\ Needs(name) \subseteq DOMAIN layers_poligonos
    /\ ap_pc' # ap_pc

\* the shard ids that a loaded index gives for a polygon
RelevantIds(index, geom) ==
    IF index = None THEN {}
    ELSE {GradeNumber(q.QUADRANTE) :
             q \in {x \in Value(index) : Intersects(x.geometry, geom)}}

\* the cells of the shards `ids` that intersect a polygon
CellsOn(ids, geom) ==
    {c \in UNION {GridFile(id) : id \in ids} : Intersects(c.geometry, geom)}

\* the stage is left without statistics and the run goes on
OmittedAndRunsOn(name) ==
    /\ name \notin DOMAIN results'
    /\ ap_pc' = AfterStage(name)
    /\ ap_pc' = "done" => ap_ret' = Some(results')

\* C12: whenever no quadrant intersects the query polygon, no relevant shard
\* loads, or no cell of the loaded shards is retained, processar_todas_grades
\* returns None without raising; analyze_population leaves the layer out of
\* the results and goes on to the remaining stages.
C12_NoDataIsNotFatal ==
    [][\A name \in StageNames :
          Queries(name) =>
             LET geom == QueryPolygon(name)
                 rel == RelevantIds(QUADRANT_INDEX', geom)
                 loaded == rel \cap DOMAIN GRID_CACHE'
             IN  (\/ QUADRANT_INDEX' # None /\ rel = {}
                  \/ rel # {} /\ loaded = {}
                  \/ loaded # {} /\ CellsOn(loaded, geom) = {})
                 => OmittedAndRunsOn(name)]_vars

\* C13: when the extracted layers lack Ground Risk Buffer or Adjacent Area
\* (at least one layer being extracted), every stage that needs the missing
\* layer is skipped, nothing is raised, and the mapping returned holds the
\* statistics of the stages that succeeded.
C13_MissingLayerSkipsStage ==
    [][\A name \in {"Ground Risk Buffer", "Adjacent Area"} :
          (/\ ap_pc = StagePc(name)
           /\ ap_pc' # ap_pc
           /\ layers_poligonos # EmptyDict
           /\ ~(Needs(name) \subseteq DOMAIN layers_poligonos))
          => /\ ap_pc' = AfterStage(name)
             /\ results' = results
             /\ ap_pc' = "done" => ap_ret' = Some(results')]_vars

\* app.py line 549, `if results:`: the returned value counts as no result
NoResult(ret) == ret = None \/ ret = Some(EmptyDict)

\* C14: analyze_population ends with the same no-result outcome, nothing
\* raised, in both total-failure cases: no layer extracted from the KML, and
\* layers extracted but no stage giving statistics (here: the run is at its
\* last stage with no statistics so far, and that stage gives none either).
C14_TotalFailureIsNoResult ==
    [][/\ (ap_pc' # ap_pc /\ ap_pc \notin {"fg", "grb", "aa"}
            /\ layers_poligonos' = EmptyDict)
           => ap_pc' = "done" /\ NoResult(ap_ret')
       /\ (ap_pc = "aa" /\ ap_pc' # ap_pc /\ results' = EmptyDict)
           => ap_pc' = "done" /\ NoResult(ap_ret')]_vars

\* the stage ends with the statistics of exactly the cells `cells`, or with no
\* statistics if there are none, and the run goes on
StatisticsFrom(name, cells) ==
    /\ ap_pc' = AfterStage(name)
    /\ IF cells = {}
       THEN name \notin DOMAIN results'
       ELSE /\ name \in DOMAIN results'
            /\ retained'[name] = cells
            /\ results'[name].total_pessoas = SumOver(cells, [c \in cells |-> c.TOTAL])

\* C16: when the loading of a relevant shard fails, for any reason (download
\* error or storage/read error), processar_todas_grades skips only that
\* shard: no exception escapes and the statistics are those of the cells of
\* the shards that did load.
C16_FailedShardIsSkipped ==
    [][\A name \in StageNames :
          (Queries(name) /\ QUADRANT_INDEX' # None) =>
             LET geom == QueryPolygon(name)
                 rel == RelevantIds(QUADRANT_INDEX', geom)
                 loaded == rel \cap DOMAIN GRID_CACHE'
             IN  rel \ loaded # {} => StatisticsFrom(name, CellsOn(loaded, geom))]_vars

\* C18: the total population returned for a query polygon is the plain sum
\* of the population counts of exactly the cells, over all loaded relevant
\* shards, that intersect the polygon: each intersecting cell counted in
\* full, none weighted by area, no other cell counted.
C18_TotalIsSumOfIntersectingCells ==
    [][\A name \in StageNames :
          (Queries(name) /\ name \in DOMAIN results') =>
             LET geom == QueryPolygon(name)
                 rel == RelevantIds(QUADRANT_INDEX', geom)
                 loaded == rel \cap DOMAIN GRID_CACHE'
                 cells == CellsOn(loaded, geom)
             IN  /\ retained'[name] = cells
                 /\ results'[name].total_pessoas
                        = SumOver(cells, [c \in cells |-> c.TOTAL])]_vars

\* the ring stage counted in full a populated cell that the ring covers only
\* in part, next to a populated cell of the same shard that it does not touch
C18_Witness ==
    /\ ap_pc = "done"
    /\ "Adjacent Area" \in DOMAIN results
    /\ \E c \in retained["Adjacent Area"] :
           /\ c.TOTAL > 0
           /\ c.geometry \cap QueryPolygon("Adjacent Area") # {}
           /\ c.geometry \ QueryPolygon("Adjacent Area") # {}
           /\ results["Adjacent Area"].total_pessoas >= c.TOTAL
    /\ \E id \in DOMAIN GRID_CACHE : \E c \in GRID_CACHE[id] :
           /\ c.TOTAL > 0
           /\ ~Intersects(c.geometry, QueryPolygon("Adjacent Area"))
           /\ c \notin retained["Adjacent Area"]

\* C19: the area reported in a layer's statistics is the sum of the areas of
\* the retained cells for Flight Geography and Ground Risk Buffer, and the
\* true area of the ring polygon for the Adjacent Area.
C19_AreaReportedPerLayer ==
    \A n \in DOMAIN results :
        ReturnedArea(results[n]) =
            IF n = "Adjacent Area"
            THEN Rat(Area(QueryPolygon(n)), 1000000)
            ELSE Rat(SumOver(retained[n], [c \in retained[n] |-> Area(c.geometry)]),
                     1000000)

\* the stages that have finished when the run is at position p
FinishedAt(p) ==
    IF p = "fg" THEN {}
    ELSE IF p = "grb" THEN {"Flight Geography"}
    ELSE IF p = "aa" THEN {"Flight Geography", "Ground Risk Buffer"}
    ELSE StageNames

\* what every step of a run does to the position and to the results
StepKeepsStageOrder ==
    /\ (ap_pc' = "fg" /\ ap_pc # "fg") => ap_pc \in {"idle", "done", "raised"}
    /\ (ap_pc' = "grb" /\ ap_pc # "grb") => ap_pc = "fg"
    /\ (ap_pc' = "aa" /\ ap_pc # "aa") => ap_pc = "grb"
    /\ \A name \in StageNames :
          /\ (ap_pc = StagePc(name) /\ ap_pc' \notin {ap_pc, "raised"})
                 => ap_pc' = AfterStage(name)
          /\ (name \in DOMAIN results' /\ name \notin DOMAIN results)
                 => ap_pc = StagePc(name)

\* C20: in every run of analyze_population the stages execute in the order
\* Flight Geography, Ground Risk Buffer, Adjacent Area ring. A stage starts
\* only from the end of the one before it, the first only from the start of
\* a run; a stage that ends without raising, with statistics or with no data,
\* is followed by the next one; and statistics are only ever added for the
\* stage that is running, so that a run holds none for a stage that has not
\* run yet.
C20_StagesInFixedOrder ==
    /\ [][StepKeepsStageOrder]_vars
    /\ [](ap_pc \in {"fg", "grb", "aa"} => DOMAIN results \subseteq FinishedAt(ap_pc))

\* the ring stage is about to start after a Flight Geography stage that
\* returned no data and a Ground Risk Buffer stage that returned statistics
C20_Witness ==
    /\ ap_pc = "aa"
    /\ DOMAIN layers_poligonos = AllLayers
    /\ DOMAIN results = {"Ground Risk Buffer"}

\* C21: within one run of analyze_population, once the download of a shard
\* id has failed, no further download of that shard id is attempted by the
\* later stages of the run.
C21_NoDownloadAfterFailure ==
    \A i \in 1..Len(downloads) : \A j \in 1..Len(downloads) :
        (i < j /\ ~downloads[i].ok) => downloads[j].grade_id # downloads[i].grade_id

----------------------------------------------------------------------------
(* Claims about the loader functions *)

\* the last call was carregar_grid_ibge(id, use_cache=True)
CachingCallFor(lc, id) ==
    /\ lc.fn = "carregar_grid_ibge"
    /\ lc.use_cache
    /\ lc.grade_id = id

\* C15: with caching enabled, once a shard id has been loaded successfully
\* in the process, every later call for that id returns the cached data
\* without a download or a file read, whatever calls for other ids happen in
\* between. In three parts: a successful caching load puts the id in
\* _GRID_CACHE; no call removes or replaces an entry; and a caching call for
\* an id in _GRID_CACHE returns that entry, which is the shard's data, with no
\* input or output, whatever the network and the storage would do.
C15_LoadedShardServedFromCache ==
    /\ [][\A id \in ShardIds :
             /\ (CachingCallFor(last_call', id) /\ last_call'.ret # None)
                    => id \in DOMAIN GRID_CACHE'
             /\ id \in DOMAIN GRID_CACHE
                    => id \in DOMAIN GRID_CACHE' /\ GRID_CACHE'[id] = GRID_CACHE[id]
             /\ (CachingCallFor(last_call', id) /\ id \in DOMAIN GRID_CACHE)
                    => /\ last_call'.ret = Some(GRID_CACHE[id])
                       /\ last_call'.io = {}
                       /\ disk' = disk]_vars
    /\ [](\A id \in DOMAIN GRID_CACHE : \A env \in CallEnvs :
             LET r == carregar_grid_ibge(id, TRUE, GRID_CACHE, disk, env)
             IN  /\ r.ret = Some(GridFile(id))
                 /\ r.io = {}
                 /\ ~r.raised
                 /\ r.cache = GRID_CACHE
                 /\ r.disk = disk)

\* a caching call for shard 21 was served from the cache, with shard 22
\* loaded in the meantime
C15_Witness ==
    /\ CachingCallFor(last_call, GradeId(1))
    /\ last_call.io = {}
    /\ last_call.ret = Some(GridFile(GradeId(1)))
    /\ DOMAIN GRID_CACHE = {GradeId(1), GradeId(2)}

\* the last call was carregar_indice_quadrantes()
IndexCall(lc) == lc.fn = "carregar_indice_quadrantes"

\* the last call read the index file and stored the index
IndexLoad(lc) == IndexCall(lc) /\ "read" \in lc.io /\ lc.ret # None

\* what every call does to _QUADRANT_INDEX
StepLoadsIndexOnce ==
    /\ IndexLoad(last_call') =>
          /\ QUADRANT_INDEX = None
          /\ QUADRANT_INDEX' = last_call'.ret
          /\ QUADRANT_INDEX' # None
    /\ QUADRANT_INDEX # None =>
          /\ QUADRANT_INDEX' = QUADRANT_INDEX
          /\ IndexCall(last_call') =>
                /\ last_call'.ret = QUADRANT_INDEX
                /\ last_call'.io = {}
                /\ disk' = disk

\* C22: across any sequence of calls of carregar_indice_quadrantes in one
\* process, calls whose download fails included, the quadrant index is loaded
\* at most once (a load happens only while _QUADRANT_INDEX is None and sets
\* it for good), and after the first successful load every later call returns
\* that same index without a download or a file read, whatever the network
\* and the storage would do.
C22_IndexLoadedAtMostOnce ==
    /\ [][StepLoadsIndexOnce]_vars
    /\ [](QUADRANT_INDEX # None =>
            \A env \in CallEnvs :
               LET r == carregar_indice_quadrantes(QUADRANT_INDEX, disk, env)
               IN  /\ r.ret = QUADRANT_INDEX
                   /\ r.ret = Some(BR500KM)
                   /\ r.io = {}
                   /\ ~r.raised
                   /\ r.index = QUADRANT_INDEX
                   /\ r.disk = disk)

\* a call served from the stored index, made after shard loads
C22_Witness ==
    /\ IndexCall(last_call)
    /\ last_call.io = {}
    /\ last_call.ret = Some(BR500KM)
    /\ QUADRANT_INDEX = Some(BR500KM)
    /\ DOMAIN GRID_CACHE # {}

\* the last call was carregar_grid_ibge
GridCall(lc) == lc.fn = "carregar_grid_ibge"

\* what every call does to _GRID_CACHE
StepKeepsGridCache ==
    /\ \A id \in DOMAIN GRID_CACHE :
          id \in DOMAIN GRID_CACHE' /\ GRID_CACHE'[id] = GRID_CACHE[id]
    /\ GridCall(last_call') =>
          /\ DOMAIN GRID_CACHE' \subseteq DOMAIN GRID_CACHE \cup {last_call'.grade_id}
          /\ (last_call'.ret = None \/ ~last_call'.use_cache)
                 => GRID_CACHE' = GRID_CACHE
    /\ ~GridCall(last_call') => GRID_CACHE' = GRID_CACHE

\* C25: after any sequence of carregar_grid_ibge calls (any shard ids, any
\* use_cache values, any download or read outcomes), every entry of
\* _GRID_CACHE is the successfully loaded data of its own key: a failed load
\* is never cached and no entry is ever replaced or removed. A call with
\* use_cache=False neither reads _GRID_CACHE (it does what it would do with
\* an empty cache) nor modifies it.
C25_GridCacheHoldsLoadedData ==
    /\ [][StepKeepsGridCache]_vars
    /\ [](/\ \A id \in DOMAIN GRID_CACHE :
                id \in ShardIds /\ GRID_CACHE[id] = GridFile(id)
          /\ \A id \in ShardIds : \A env \in CallEnvs :
                LET r == carregar_grid_ibge(id, FALSE, GRID_CACHE, disk, env)
                    e == carregar_grid_ibge(id, FALSE, EmptyDict, disk, env)
                IN  /\ r.cache = GRID_CACHE
                    /\ e.cache = EmptyDict
                    /\ r.ret = e.ret /\ r.io = e.io
                    /\ r.raised = e.raised /\ r.disk = e.disk
                    /\ r.io # {})

\* a call with use_cache=False loaded shard 21 and left it out of
\* _GRID_CACHE, which holds shard 22
C25_Witness ==
    /\ GridCall(last_call)
    /\ ~last_call.use_cache
    /\ last_call.grade_id = GradeId(1)
    /\ last_call.ret = Some(GridFile(GradeId(1)))
    /\ DOMAIN GRID_CACHE = {GradeId(2)}
    /\ GRID_CACHE[GradeId(2)] = GridFile(GradeId(2))

----------------------------------------------------------------------------
(* Claims about the app wizard *)

\* C26: whenever the results section is displayed, the stored analysis_results
\* were computed from the currently stored uploaded file and the currently
\* stored parameters
C26_DisplayedResultsAreCurrent ==
    ResultsDisplayed =>
        session_state.analysis_results.kml_data
            = SafetyMarginsKml(session_state.uploaded_file,
                               StoredParameters(session_state))

\* results are displayed for a second file and a second parameter set
C26_Witness ==
    /\ ResultsDisplayed
    /\ session_state.uploaded_file = "b.kml"
    /\ session_state.height = Metres(200)
    /\ session_state.corner_style = "rounded"

====
